---- MODULE Spec2Model ----
(***************************************************************************)
(* Cargo-loading planner (src/app.py): the request store, the packing      *)
(* engine optimize_cargo, the placement search find_balanced_position and  *)
(* the collision test boxes_overlap.                                       *)
(*                                                                         *)
(* Units.  Every length is an integer number of 5 mm units (0.45 m = 90),  *)
(* so that the half extents of all presets are integers; a volume is in    *)
(* cubic units, a weight in kg.  The code computes in binary floating      *)
(* point; the model computes the same expressions exactly.  The bays of    *)
(* the model have even dimensions, so that max_length / 2 is exact.        *)
(***************************************************************************)
EXTENDS Integers, Sequences, FiniteSets, TLC

VARIABLES
    cargo_requests,      \* module global: the stored requests, in arrival order
    request_counter,     \* module global: the last identifier handed out
    latest_load_plan,    \* module global: <<>> (None) or <<result>>
    pc,                  \* position of the optimize_cargo call: "idle" or "loop"
    bay,                 \* optimize_cargo: max_weight, max_length, max_width, max_height
    sorted_requests,     \* optimize_cargo local
    idx,                 \* optimize_cargo: index in sorted_requests of the item the for loop is at
    packed,              \* optimize_cargo local
    unpacked,            \* optimize_cargo local
    current_weight,      \* optimize_cargo local
    current_volume,      \* optimize_cargo local
    front_left_weight,   \* optimize_cargo local
    front_right_weight,  \* optimize_cargo local
    rear_left_weight,    \* optimize_cargo local
    rear_right_weight,   \* optimize_cargo local
    search_calls,        \* identifiers for which find_balanced_position was called in this call
    response,            \* what the last finished handler returned (for a bare
                         \* boxes_overlap call: its two arguments, then also its result)
    threads              \* handle_requests / clear_requests calls of a threaded
                         \* server: the position and the locals of each

globals == <<cargo_requests, request_counter, latest_load_plan>>
locals == <<bay, sorted_requests, idx, packed, unpacked, current_weight,
            current_volume, front_left_weight, front_right_weight,
            rear_left_weight, rear_right_weight, search_calls>>
vars == <<cargo_requests, request_counter, latest_load_plan, pc, bay,
          sorted_requests, idx, packed, unpacked, current_weight,
          current_volume, front_left_weight, front_right_weight,
          rear_left_weight, rear_right_weight, search_calls, response, threads>>

----------------------------------------------------------------------------
(* Bounds of the model *)

\* largest minimum-corner coordinate of the boxes handed to boxes_overlap alone
MaxCoord == 2
\* longest request list the model builds
MaxRequests == 3
\* largest quantity of one add-request
MaxQuantity == 2

----------------------------------------------------------------------------
(* Presets *)

ITEM_PRESETS ==
    [t \in {"Water Case (24 bottles)", "Dozen NP Food Cans", "First-Aid Kit",
            "Toilet Paper (12-Roll Pack)", "Sanitary Pads (20 Pack)",
            "Clothing Pack (Jacket + Undergarments)", "Blanket (Rolled)",
            "Pet Supplies Pack", "Baby Formula (Case)"} |->
        CASE t = "Water Case (24 bottles)" ->
                 [weight |-> 18, length |-> 90, width |-> 60, height |-> 50]
          [] t = "Dozen NP Food Cans" ->
                 [weight |-> 10, length |-> 80, width |-> 60, height |-> 44]
          [] t = "First-Aid Kit" ->
                 [weight |-> 4, length |-> 70, width |-> 50, height |-> 40]
          [] t = "Toilet Paper (12-Roll Pack)" ->
                 [weight |-> 3, length |-> 80, width |-> 60, height |-> 50]
          [] t = "Sanitary Pads (20 Pack)" ->
                 [weight |-> 1, length |-> 60, width |-> 40, height |-> 24]
          [] t = "Clothing Pack (Jacket + Undergarments)" ->
                 [weight |-> 5, length |-> 90, width |-> 70, height |-> 50]
          [] t = "Blanket (Rolled)" ->
                 [weight |-> 2, length |-> 100, width |-> 50, height |-> 50]
          [] t = "Pet Supplies Pack" ->
                 [weight |-> 6, length |-> 100, width |-> 60, height |-> 60]
          [] t = "Baby Formula (Case)" ->
                 [weight |-> 8, length |-> 80, width |-> 60, height |-> 50]]

\* 20 cm lattice step of the placement search
step == 40

\* the record handle_requests appends for one unit of a request
NewRequest(id, item_type, priority) ==
    [id |-> id, item_type |-> item_type, priority |-> priority,
     weight |-> ITEM_PRESETS[item_type].weight,
     length |-> ITEM_PRESETS[item_type].length,
     width |-> ITEM_PRESETS[item_type].width,
     height |-> ITEM_PRESETS[item_type].height]

----------------------------------------------------------------------------
(* Arithmetic of the code *)

\* Python's int(a / b) for b > 0: truncation toward zero
IntDiv(a, b) == IF a >= 0 THEN a \div b ELSE -((-a) \div b)

\* len(range(n))
RangeLen(n) == IF n > 0 THEN n ELSE 0

\* the least element of a non-empty set of integers
Least(S) == CHOOSE m \in S : \A n \in S : m <= n

Abs(a) == IF a >= 0 THEN a ELSE -a

\* <<q, r>> with n * 10^k = q * d + r and 0 <= r < d, by long division
RECURSIVE LongDiv(_, _, _)
LongDiv(n, d, k) ==
    IF k = 0 THEN <<n \div d, n % d>>
    ELSE LET p == LongDiv(n, d, k - 1)
         IN  <<p[1] * 10 + ((10 * p[2]) \div d), (10 * p[2]) % d>>

\* round(n / d, k) as an integer number of 10^-k: to nearest, ties to even.
\* (On a decimal tie such as 1.175 the code rounds the nearest binary float,
\* which may fall on either side; the model rounds the exact quotient.)
Round(n, d, k) ==
    LET p == LongDiv(n, d, k)
    IN  IF 2 * p[2] > d THEN p[1] + 1
        ELSE IF 2 * p[2] = d THEN p[1] + (p[1] % 2)
        ELSE p[1]

----------------------------------------------------------------------------
(* boxes_overlap *)

\* variant: inclusive comparisons, so that boxes sharing a face count as overlapping
boxes_overlap_Inclusive(x1, y1, z1, l1, w1, h1, x2, y2, z2, l2, w2, h2) ==
    ~ (\/ x1 + l1 < x2 \/ x2 + l2 < x1
       \/ y1 + w1 < y2 \/ y2 + w2 < y1
       \/ z1 + h1 < z2 \/ z2 + h2 < z1)

\* variant: the second box's length is left out of one comparison
boxes_overlap_NoExtent(x1, y1, z1, l1, w1, h1, x2, y2, z2, l2, w2, h2) ==
    ~ (\/ x1 + l1 <= x2 \/ x2 <= x1
       \/ y1 + w1 <= y2 \/ y2 + w2 <= y1
       \/ z1 + h1 <= z2 \/ z2 + h2 <= z1)

boxes_overlap(x1, y1, z1, l1, w1, h1, x2, y2, z2, l2, w2, h2) ==
    ~ (\/ x1 + l1 <= x2 \/ x2 + l2 <= x1
       \/ y1 + w1 <= y2 \/ y2 + w2 <= y1
       \/ z1 + h1 <= z2 \/ z2 + h2 <= z1)

----------------------------------------------------------------------------
(* sorted(cargo_requests, key=lambda x: (-x['priority'], -x['weight'])) *)

\* variant: the two components of the key are swapped
KeyLess_WeightFirst(a, b) ==
    \/ a.weight > b.weight
    \/ a.weight = b.weight /\ a.priority > b.priority

\* key(a) < key(b)
KeyLess(a, b) ==
    \/ a.priority > b.priority
    \/ a.priority = b.priority /\ a.weight > b.weight

\* stable insertion: x goes after every element whose key is <= its own
SortInsert(s, x) ==
    LET n == Cardinality({i \in 1..Len(s) : ~KeyLess(x, s[i])})
    IN  SubSeq(s, 1, n) \o <<x>> \o SubSeq(s, n + 1, Len(s))

RECURSIVE SortRequests(_)
SortRequests(s) ==
    IF s = <<>> THEN <<>>
    ELSE SortInsert(SortRequests(SubSeq(s, 1, Len(s) - 1)), s[Len(s)])

----------------------------------------------------------------------------
(* find_balanced_position *)

\* variant: the default order starts at the front-left quadrant
DefaultQuadrants_FrontFirst == << <<0, 0>>, <<0, 1>>, <<1, 0>>, <<1, 1>> >>

\* quadrants are <<rear, right>> pairs of 0/1
DefaultQuadrants == << <<1, 1>>, <<0, 1>>, <<1, 0>>, <<0, 0>> >>

\* keys of the quadrant_weights dict, in insertion order
QuadrantKeys == << <<0, 0>>, <<0, 1>>, <<1, 0>>, <<1, 1>> >>

QuadrantWeight(q, fl, fr, rl, rr) ==
    IF q = <<0, 0>> THEN fl
    ELSE IF q = <<0, 1>> THEN fr
    ELSE IF q = <<1, 0>> THEN rl
    ELSE rr

\* sorted(quadrant_weights.keys(), key=weight): stable, lightest first
RECURSIVE SortQuadrants(_, _, _, _, _)
SortQuadrants(qs, fl, fr, rl, rr) ==
    IF qs = <<>> THEN <<>>
    ELSE LET s == SortQuadrants(SubSeq(qs, 1, Len(qs) - 1), fl, fr, rl, rr)
             q == qs[Len(qs)]
             n == Cardinality({i \in 1..Len(s) :
                       QuadrantWeight(s[i], fl, fr, rl, rr)
                           <= QuadrantWeight(q, fl, fr, rl, rr)})
         IN  SubSeq(s, 1, n) \o <<q>> \o SubSeq(s, n + 1, Len(s))

target_quadrants(fl, fr, rl, rr) ==
    IF fl + fr + rl + rr = 0 THEN DefaultQuadrants
    ELSE SortQuadrants(QuadrantKeys, fl, fr, rl, rr)

x_start(q, max_length) == IF q[1] = 1 THEN max_length \div 2 ELSE 0
x_end(q, max_length) == IF q[1] = 1 THEN max_length ELSE max_length \div 2
y_start(q, max_width) == IF q[2] = 1 THEN max_width \div 2 ELSE 0
y_end(q, max_width) == IF q[2] = 1 THEN max_width ELSE max_width \div 2

\* lattice coordinates of the three loops
LatticeZ(max_height) ==
    {i * step : i \in 0..(RangeLen(IntDiv(max_height, step)) - 1)}
LatticeY(q, max_width) ==
    {y_start(q, max_width) + i * step :
        i \in 0..(RangeLen(IntDiv(y_end(q, max_width) - y_start(q, max_width), step)) - 1)}
LatticeX(q, max_length) ==
    {x_start(q, max_length) + i * step :
        i \in 0..(RangeLen(IntDiv(x_end(q, max_length) - x_start(q, max_length), step)) - 1)}

\* variant: the length test of the innermost loop is missing
InBounds_NoLength(x, y, z, item, max_length, max_width, max_height) ==
    /\ ~(z + item.height > max_height)
    /\ ~(y + item.width > max_width)

\* the three "continue" tests
InBounds(x, y, z, item, max_length, max_width, max_height) ==
    /\ ~(z + item.height > max_height)
    /\ ~(y + item.width > max_width)
    /\ ~(x + item.length > max_length)

\* the inner loop over packed: some packed item overlaps the candidate.
\* The packed item's minimum corner is its centre minus half its extent
\* (every preset extent is an even number of units, so the halves are exact).
Overlaps(pk, x, y, z, item) ==
    \E i \in 1..Len(pk) :
        boxes_overlap(x, y, z, item.length, item.width, item.height,
                      pk[i].position.x - pk[i].length \div 2,
                      pk[i].position.y - pk[i].width \div 2,
                      pk[i].position.z - pk[i].height \div 2,
                      pk[i].length, pk[i].width, pk[i].height)

\* a lattice point the scan of quadrant q returns at if it gets there
Candidate(pk, x, y, z, item, max_length, max_width, max_height) ==
    /\ InBounds(x, y, z, item, max_length, max_width, max_height)
    /\ ~Overlaps(pk, x, y, z, item)

\* variant: the loops are nested the other way round, x outermost and z innermost
ScanQuadrant_ZInner(pk, item, q, max_length, max_width, max_height) ==
    LET Xs == LatticeX(q, max_length)
        Ys == LatticeY(q, max_width)
        Zs == LatticeZ(max_height)
        Ok(x, y, z) == Candidate(pk, x, y, z, item, max_length, max_width, max_height)
        X1 == {x \in Xs : \E y \in Ys : \E z \in Zs : Ok(x, y, z)}
    IN  IF X1 = {} THEN <<>>
        ELSE LET x0 == Least(X1)
                 y0 == Least({y \in Ys : \E z \in Zs : Ok(x0, y, z)})
                 z0 == Least({z \in Zs : Ok(x0, y0, z)})
             IN  << [x |-> x0, y |-> y0, z |-> z0] >>

\* the scan of one quadrant, z outermost, then y, then x: <<>> or <<corner>>
ScanQuadrant(pk, item, q, max_length, max_width, max_height) ==
    LET Xs == LatticeX(q, max_length)
        Ys == LatticeY(q, max_width)
        Zs == LatticeZ(max_height)
        Ok(x, y, z) == Candidate(pk, x, y, z, item, max_length, max_width, max_height)
        Z1 == {z \in Zs : \E y \in Ys : \E x \in Xs : Ok(x, y, z)}
    IN  IF Z1 = {} THEN <<>>
        ELSE LET z0 == Least(Z1)
                 y0 == Least({y \in Ys : \E x \in Xs : Ok(x, y, z0)})
                 x0 == Least({x \in Xs : Ok(x, y0, z0)})
             IN  << [x |-> x0, y |-> y0, z |-> z0] >>

\* pos_x, pos_y, pos_z: the centre of the item whose minimum corner is c
Centre(c, item) ==
    [x |-> c.x + item.length \div 2, y |-> c.y + item.width \div 2,
     z |-> c.z + item.height \div 2]

\* variant: "return None" sits inside the loop over the quadrants
TryQuadrants_FirstOnly(qs, pk, item, max_length, max_width, max_height) ==
    IF qs = <<>> THEN <<>>
    ELSE LET c == ScanQuadrant(pk, item, Head(qs), max_length, max_width, max_height)
         IN  IF c # <<>> THEN << Centre(c[1], item) >> ELSE <<>>

RECURSIVE TryQuadrants(_, _, _, _, _, _)
TryQuadrants(qs, pk, item, max_length, max_width, max_height) ==
    IF qs = <<>> THEN <<>>
    ELSE LET c == ScanQuadrant(pk, item, Head(qs), max_length, max_width, max_height)
         IN  IF c # <<>> THEN << Centre(c[1], item) >>
             ELSE TryQuadrants(Tail(qs), pk, item, max_length, max_width, max_height)

\* <<>> (None) or <<position>>
find_balanced_position(pk, item, max_length, max_width, max_height, fl, fr, rl, rr) ==
    TryQuadrants(target_quadrants(fl, fr, rl, rr), pk, item,
                 max_length, max_width, max_height)

----------------------------------------------------------------------------
(* optimize_cargo *)

\* AIRCRAFT_PRESETS["UH-60 Black Hawk"]: 1200 kg, 3.8 m x 2.2 m x 1.3 m
BlackHawk ==
    [max_weight |-> 1200, max_length |-> 760, max_width |-> 440, max_height |-> 260]

\* The constraints a request may carry.  Besides the preset: a 0.5 m x 0.4 m
\* x 0.3 m bay of 20 kg with one lattice point per quadrant, a 1.0 m x 0.9 m
\* x 0.5 m bay of 30 kg, a 0.36 m long bay whose quadrants are shorter than
\* one lattice step, the preset's bay with max_weight 0, and a 0.5 m x 0.8 m
\* x 0.45 m bay of 20 kg whose quadrants have two rows of one lattice point on
\* two levels.
Bays ==
    { BlackHawk,
      [max_weight |-> 20, max_length |-> 100, max_width |-> 80, max_height |-> 60],
      [max_weight |-> 20, max_length |-> 100, max_width |-> 160, max_height |-> 90],
      [max_weight |-> 30, max_length |-> 200, max_width |-> 180, max_height |-> 100],
      [max_weight |-> 1200, max_length |-> 72, max_width |-> 120, max_height |-> 60],
      [max_weight |-> 0, max_length |-> 760, max_width |-> 440, max_height |-> 260] }

\* the locals of a call that is not running
NoBay == [max_weight |-> 0, max_length |-> 0, max_width |-> 0, max_height |-> 0]

max_volume(b) == b.max_length * b.max_width * b.max_height

item_volume(item) == item.length * item.width * item.height

\* variant: the length test is missing
FitsConstraints_NoLength(item, cw, cv, b) ==
    /\ cw + item.weight <= b.max_weight
    /\ cv + item_volume(item) <= max_volume(b)
    /\ item.width <= b.max_width
    /\ item.height <= b.max_height

\* variant: the weight test ignores the running weight
FitsConstraints_ItemWeightOnly(item, cw, cv, b) ==
    /\ item.weight <= b.max_weight
    /\ cv + item_volume(item) <= max_volume(b)
    /\ item.length <= b.max_length
    /\ item.width <= b.max_width
    /\ item.height <= b.max_height

\* the if of the loop body: the item fits within the constraints
FitsConstraints(item, cw, cv, b) ==
    /\ cw + item.weight <= b.max_weight
    /\ cv + item_volume(item) <= max_volume(b)
    /\ item.length <= b.max_length
    /\ item.width <= b.max_width
    /\ item.height <= b.max_height

\* variant: a centre on the midline counts as front
in_front_Inclusive(pos, b) == pos.x <= b.max_length \div 2

\* in_front, on_left of the committed position
in_front(pos, b) == pos.x < b.max_length \div 2
on_left(pos, b) == pos.y < b.max_width \div 2

\* item.copy() with the position attached
WithPosition(item, pos) ==
    [id |-> item.id, item_type |-> item.item_type, priority |-> item.priority,
     weight |-> item.weight, length |-> item.length, width |-> item.width,
     height |-> item.height, position |-> pos]

\* variant: the quadrant weights live on from the previous call
InitialQuadrantWeight_Stale ==
    IF latest_load_plan = <<>> THEN 0 ELSE latest_load_plan[1].stats.right_weight

\* the weights each quadrant starts a call with
InitialQuadrantWeight == 0

RECURSIVE SumOver(_, _)
\* sum(f(p) for p in s), f given as the sequence of its values
SumOver(s, i) == IF i = 0 THEN 0 ELSE s[i] + SumOver(s, i - 1)

Moment(pk, axis) ==
    SumOver([i \in 1..Len(pk) |->
                (IF axis = "x" THEN pk[i].position.x
                 ELSE IF axis = "y" THEN pk[i].position.y
                 ELSE pk[i].position.z) * pk[i].weight], Len(pk))

\* variant: the offsets are taken with their sign, abs() is missing
balance_score_Signed(pk, cw, b) ==
    LET D == b.max_length * b.max_width * cw
        X == (2 * Moment(pk, "x") - b.max_length * cw) * b.max_width
             + (2 * Moment(pk, "y") - b.max_width * cw) * b.max_length
    IN  IF X >= 0 THEN Round(2 * D - X, 2 * D, 3) ELSE 2000 - Round(2 * D + X, 2 * D, 3)

\* variant: the offsets are divided by the full extents, not the half extents
balance_score_FullExtent(pk, cw, b) ==
    LET D == b.max_length * b.max_width * cw
        X == Abs(2 * Moment(pk, "x") - b.max_length * cw) * b.max_width
             + Abs(2 * Moment(pk, "y") - b.max_width * cw) * b.max_length
    IN  Round(4 * D - X, 4 * D, 3)

\* round(balance_score, 1) in tenths of a point, for a non-empty packed list:
\* balance_score = (balance_x + balance_y) / 2 with
\* balance_x = 100 - |cog_x - max_length/2| / (max_length/2) * 100, cog_x = Mx / cw,
\* that is 100 * (2D - X) / (2D) for D = L*W*cw and X = |2Mx - L*cw|*W + |2My - W*cw|*L
balance_score(pk, cw, b) ==
    LET D == b.max_length * b.max_width * cw
        X == Abs(2 * Moment(pk, "x") - b.max_length * cw) * b.max_width
             + Abs(2 * Moment(pk, "y") - b.max_width * cw) * b.max_length
    IN  Round(2 * D - X, 2 * D, 3)

\* variant: the left/right split adds up the two front quadrants as "left"
Stats_FrontAsLeft(pk, unpk, cw, cv, b, fl, fr, rl, rr) ==
    [total_weight |-> cw,
     max_weight |-> b.max_weight,
     weight_utilization |-> IF b.max_weight > 0 THEN Round(cw, b.max_weight, 4) ELSE 0,
     total_volume |-> cv,
     max_volume |-> max_volume(b),
     volume_utilization |-> IF max_volume(b) > 0 THEN Round(cv, max_volume(b), 4) ELSE 0,
     items_packed |-> Len(pk),
     items_unpacked |-> Len(unpk),
     center_of_gravity |->
        IF pk # <<>>
        THEN [x |-> Round(Moment(pk, "x"), 2 * cw, 0),
              y |-> Round(Moment(pk, "y"), 2 * cw, 0),
              z |-> Round(Moment(pk, "z"), 2 * cw, 0)]
        ELSE [x |-> 0, y |-> 0, z |-> 0],
     balance_score |-> IF pk # <<>> THEN balance_score(pk, cw, b) ELSE 1000,
     left_weight |-> IF pk # <<>> THEN fl + fr ELSE 0,
     right_weight |-> IF pk # <<>> THEN rl + rr ELSE 0]

\* variant: without packed items the balance score keeps a zero default
Stats_ZeroDefault(pk, unpk, cw, cv, b, fl, fr, rl, rr) ==
    [total_weight |-> cw,
     max_weight |-> b.max_weight,
     weight_utilization |-> IF b.max_weight > 0 THEN Round(cw, b.max_weight, 4) ELSE 0,
     total_volume |-> cv,
     max_volume |-> max_volume(b),
     volume_utilization |-> IF max_volume(b) > 0 THEN Round(cv, max_volume(b), 4) ELSE 0,
     items_packed |-> Len(pk),
     items_unpacked |-> Len(unpk),
     center_of_gravity |->
        IF pk # <<>>
        THEN [x |-> Round(Moment(pk, "x"), 2 * cw, 0),
              y |-> Round(Moment(pk, "y"), 2 * cw, 0),
              z |-> Round(Moment(pk, "z"), 2 * cw, 0)]
        ELSE [x |-> 0, y |-> 0, z |-> 0],
     balance_score |-> IF pk # <<>> THEN balance_score(pk, cw, b) ELSE 0,
     left_weight |-> IF pk # <<>> THEN fl + rl ELSE 0,
     right_weight |-> IF pk # <<>> THEN fr + rr ELSE 0]

\* The stats block.  Rounded figures are integers in the unit of their last
\* digit: utilizations in 0.01 %, centre of gravity in 0.01 m, balance score
\* in 0.1 point; weights and volumes are exact.
Stats(pk, unpk, cw, cv, b, fl, fr, rl, rr) ==
    [total_weight |-> cw,
     max_weight |-> b.max_weight,
     weight_utilization |-> IF b.max_weight > 0 THEN Round(cw, b.max_weight, 4) ELSE 0,
     total_volume |-> cv,
     max_volume |-> max_volume(b),
     volume_utilization |-> IF max_volume(b) > 0 THEN Round(cv, max_volume(b), 4) ELSE 0,
     items_packed |-> Len(pk),
     items_unpacked |-> Len(unpk),
     center_of_gravity |->
        IF pk # <<>>
        THEN [x |-> Round(Moment(pk, "x"), 2 * cw, 0),
              y |-> Round(Moment(pk, "y"), 2 * cw, 0),
              z |-> Round(Moment(pk, "z"), 2 * cw, 0)]
        ELSE [x |-> 0, y |-> 0, z |-> 0],
     balance_score |-> IF pk # <<>> THEN balance_score(pk, cw, b) ELSE 1000,
     left_weight |-> IF pk # <<>> THEN fl + rl ELSE 0,
     right_weight |-> IF pk # <<>> THEN fr + rr ELSE 0]

Result(pk, unpk, cw, cv, b, fl, fr, rl, rr) ==
    [packed |-> pk,
     unpacked |-> unpk,
     stats |-> Stats(pk, unpk, cw, cv, b, fl, fr, rl, rr),
     aircraft |-> [type |-> "UH-60 Black Hawk", max_length |-> b.max_length,
                   max_width |-> b.max_width, max_height |-> b.max_height]]

\* the locals of optimize_cargo when the for loop starts
LoopStart ==
    [packed |-> <<>>, unpacked |-> <<>>, current_weight |-> 0, current_volume |-> 0,
     front_left_weight |-> InitialQuadrantWeight,
     front_right_weight |-> InitialQuadrantWeight,
     rear_left_weight |-> InitialQuadrantWeight,
     rear_right_weight |-> InitialQuadrantWeight]

\* one pass of the loop body: the locals after item, from the locals st before it
LoopBody(st, item, b) ==
    IF ~FitsConstraints(item, st.current_weight, st.current_volume, b)
    THEN [st EXCEPT !.unpacked = Append(@, item)]
    ELSE LET found == find_balanced_position(st.packed, item, b.max_length,
                          b.max_width, b.max_height, st.front_left_weight,
                          st.front_right_weight, st.rear_left_weight,
                          st.rear_right_weight)
         IN  IF found = <<>>
             THEN [st EXCEPT !.unpacked = Append(@, item)]
             ELSE LET pos == found[1]
                      front == in_front(pos, b)
                      left == on_left(pos, b)
                      w == item.weight
                  IN  [st EXCEPT
                         !.packed = Append(@, WithPosition(item, pos)),
                         !.current_weight = @ + w,
                         !.current_volume = @ + item_volume(item),
                         !.front_left_weight = IF front /\ left THEN @ + w ELSE @,
                         !.front_right_weight = IF front /\ ~left THEN @ + w ELSE @,
                         !.rear_left_weight = IF ~front /\ left THEN @ + w ELSE @,
                         !.rear_right_weight = IF ~front /\ ~left THEN @ + w ELSE @]

RECURSIVE RunLoop(_, _, _)
\* the locals after the first n items of sorted
RunLoop(sorted, n, b) ==
    IF n = 0 THEN LoopStart ELSE LoopBody(RunLoop(sorted, n - 1, b), sorted[n], b)

\* variant: a list heavier than max_weight as a whole is not planned at all
PlanOf_AllOrNothing(requests, b) ==
    LET sorted == SortRequests(requests)
        total == SumOver([i \in 1..Len(sorted) |-> sorted[i].weight], Len(sorted))
        st == IF total > b.max_weight
              THEN [LoopStart EXCEPT !.unpacked = sorted]
              ELSE RunLoop(sorted, Len(sorted), b)
    IN  Result(st.packed, st.unpacked, st.current_weight, st.current_volume, b,
               st.front_left_weight, st.front_right_weight,
               st.rear_left_weight, st.rear_right_weight)

\* the result of one optimize_cargo call as a function of the stored requests
\* and the constraints of the call
PlanOf(requests, b) ==
    LET sorted == SortRequests(requests)
        st == RunLoop(sorted, Len(sorted), b)
    IN  Result(st.packed, st.unpacked, st.current_weight, st.current_volume, b,
               st.front_left_weight, st.front_right_weight,
               st.rear_left_weight, st.rear_right_weight)

\* variant: cargo_requests.sort(...) in place of sorted(cargo_requests, ...)
OptimizeStart_SortsInPlace(b) ==
    /\ pc = "idle"
    /\ pc' = "loop"
    /\ bay' = b
    /\ cargo_requests' = SortRequests(cargo_requests)
    /\ sorted_requests' = SortRequests(cargo_requests)
    /\ idx' = 1
    /\ packed' = <<>>
    /\ unpacked' = <<>>
    /\ current_weight' = 0
    /\ current_volume' = 0
    /\ front_left_weight' = InitialQuadrantWeight
    /\ front_right_weight' = InitialQuadrantWeight
    /\ rear_left_weight' = InitialQuadrantWeight
    /\ rear_right_weight' = InitialQuadrantWeight
    /\ search_calls' = {}
    /\ UNCHANGED <<threads, request_counter, latest_load_plan, response>>

\* the request arrives: read the constraints, sort, initialise the locals
OptimizeStart(b) ==
    /\ pc = "idle"
    /\ pc' = "loop"
    /\ bay' = b
    /\ sorted_requests' = SortRequests(cargo_requests)
    /\ idx' = 1
    /\ packed' = <<>>
    /\ unpacked' = <<>>
    /\ current_weight' = 0
    /\ current_volume' = 0
    /\ front_left_weight' = InitialQuadrantWeight
    /\ front_right_weight' = InitialQuadrantWeight
    /\ rear_left_weight' = InitialQuadrantWeight
    /\ rear_right_weight' = InitialQuadrantWeight
    /\ search_calls' = {}
    /\ UNCHANGED <<threads, globals, response>>

\* the item the for loop is at
CurrentItem == sorted_requests[idx]

\* the position the search returns for the current item
best_position ==
    find_balanced_position(packed, CurrentItem, bay.max_length, bay.max_width,
                           bay.max_height, front_left_weight, front_right_weight,
                           rear_left_weight, rear_right_weight)

InLoop == pc = "loop" /\ idx <= Len(sorted_requests)

\* variant: a failed capacity check leaves the loop
RejectItem_Break ==
    /\ pc = "loop" /\ idx <= Len(sorted_requests)
    /\ ~FitsConstraints(sorted_requests[idx], current_weight, current_volume, bay)
    /\ unpacked' = Append(unpacked, sorted_requests[idx])
    /\ idx' = Len(sorted_requests) + 1
    /\ UNCHANGED <<threads, globals, pc, bay, sorted_requests, packed, current_weight,
                   current_volume, front_left_weight, front_right_weight,
                   rear_left_weight, rear_right_weight, search_calls, response>>

\* loop body, outer else: the item fails the capacity check
RejectItem ==
    /\ InLoop
    /\ ~FitsConstraints(CurrentItem, current_weight, current_volume, bay)
    /\ unpacked' = Append(unpacked, CurrentItem)
    /\ idx' = idx + 1
    /\ UNCHANGED <<threads, globals, pc, bay, sorted_requests, packed, current_weight,
                   current_volume, front_left_weight, front_right_weight,
                   rear_left_weight, rear_right_weight, search_calls, response>>

\* loop body: the search returns a position and the item is committed
PlaceItem ==
    /\ InLoop
    /\ FitsConstraints(CurrentItem, current_weight, current_volume, bay)
    /\ best_position # <<>>
    /\ LET pos == best_position[1]
           w == CurrentItem.weight
       IN  /\ packed' = Append(packed, WithPosition(CurrentItem, pos))
           /\ current_weight' = current_weight + w
           /\ current_volume' = current_volume + item_volume(CurrentItem)
           /\ front_left_weight' =
                 IF in_front(pos, bay) /\ on_left(pos, bay)
                 THEN front_left_weight + w ELSE front_left_weight
           /\ front_right_weight' =
                 IF in_front(pos, bay) /\ ~on_left(pos, bay)
                 THEN front_right_weight + w ELSE front_right_weight
           /\ rear_left_weight' =
                 IF ~in_front(pos, bay) /\ on_left(pos, bay)
                 THEN rear_left_weight + w ELSE rear_left_weight
           /\ rear_right_weight' =
                 IF ~in_front(pos, bay) /\ ~on_left(pos, bay)
                 THEN rear_right_weight + w ELSE rear_right_weight
    /\ search_calls' = search_calls \cup {CurrentItem.id}
    /\ idx' = idx + 1
    /\ UNCHANGED <<threads, globals, pc, bay, sorted_requests, unpacked, response>>

\* variant: an item the search cannot place is dropped without being reported
ExhaustItem_Drop ==
    /\ pc = "loop" /\ idx <= Len(sorted_requests)
    /\ FitsConstraints(sorted_requests[idx], current_weight, current_volume, bay)
    /\ best_position = <<>>
    /\ search_calls' = search_calls \cup {sorted_requests[idx].id}
    /\ idx' = idx + 1
    /\ UNCHANGED <<threads, globals, pc, bay, sorted_requests, packed, unpacked, current_weight,
                   current_volume, front_left_weight, front_right_weight,
                   rear_left_weight, rear_right_weight, response>>

\* loop body, inner else: the search returns None
ExhaustItem ==
    /\ InLoop
    /\ FitsConstraints(CurrentItem, current_weight, current_volume, bay)
    /\ best_position = <<>>
    /\ unpacked' = Append(unpacked, CurrentItem)
    /\ search_calls' = search_calls \cup {CurrentItem.id}
    /\ idx' = idx + 1
    /\ UNCHANGED <<threads, globals, pc, bay, sorted_requests, packed, current_weight,
                   current_volume, front_left_weight, front_right_weight,
                   rear_left_weight, rear_right_weight, response>>

\* variant: the planned requests are consumed when the call returns
OptimizeFinish_ClearsRequests ==
    /\ pc = "loop"
    /\ idx > Len(sorted_requests)
    /\ LET result == Result(packed, unpacked, current_weight, current_volume, bay,
                            front_left_weight, front_right_weight,
                            rear_left_weight, rear_right_weight)
       IN  /\ latest_load_plan' = <<result>>
           /\ response' = [status |-> 200, body |-> <<result>>]
    /\ pc' = "idle"
    /\ bay' = NoBay
    /\ sorted_requests' = <<>>
    /\ idx' = 0
    /\ packed' = <<>>
    /\ unpacked' = <<>>
    /\ current_weight' = 0
    /\ current_volume' = 0
    /\ front_left_weight' = 0
    /\ front_right_weight' = 0
    /\ rear_left_weight' = 0
    /\ rear_right_weight' = 0
    /\ search_calls' = {}
    /\ cargo_requests' = <<>>
    /\ request_counter' = 0
    /\ UNCHANGED threads

\* after the loop: the statistics, the stored plan and the response
OptimizeFinish ==
    /\ pc = "loop"
    /\ idx > Len(sorted_requests)
    /\ LET result == Result(packed, unpacked, current_weight, current_volume, bay,
                            front_left_weight, front_right_weight,
                            rear_left_weight, rear_right_weight)
       IN  /\ latest_load_plan' = <<result>>
           /\ response' = [status |-> 200, body |-> <<result>>]
    /\ pc' = "idle"
    /\ bay' = NoBay
    /\ sorted_requests' = <<>>
    /\ idx' = 0
    /\ packed' = <<>>
    /\ unpacked' = <<>>
    /\ current_weight' = 0
    /\ current_volume' = 0
    /\ front_left_weight' = 0
    /\ front_right_weight' = 0
    /\ rear_left_weight' = 0
    /\ rear_right_weight' = 0
    /\ search_calls' = {}
    /\ UNCHANGED <<threads, cargo_requests, request_counter>>

----------------------------------------------------------------------------
(* The request store and the plan view *)

\* what a client may send as item_type: the presets and a name that is none
ItemTypes == DOMAIN ITEM_PRESETS \cup {"Unknown"}

\* the request records of one POST, first identifier first
RECURSIVE NewRequests(_, _, _, _)
NewRequests(counter, item_type, quantity, priority) ==
    IF quantity <= 0 THEN <<>>
    ELSE <<NewRequest(counter + 1, item_type, priority)>>
         \o NewRequests(counter + 1, item_type, quantity - 1, priority)

\* variant: the identifiers are counted before the item type is validated
AddRequest_CountsInvalid(item_type, quantity, priority) ==
    /\ pc = "idle"
    /\ Len(cargo_requests) + quantity <= MaxRequests
    /\ IF item_type \notin DOMAIN ITEM_PRESETS
       THEN /\ response' = [status |-> 400, body |-> <<"Invalid item type">>]
            /\ request_counter' = request_counter + RangeLen(quantity)
            /\ UNCHANGED cargo_requests
       ELSE /\ cargo_requests' = cargo_requests
                    \o NewRequests(request_counter, item_type, quantity, priority)
            /\ request_counter' = request_counter + RangeLen(quantity)
            /\ response' = [status |-> 200, body |-> <<"Added", quantity, item_type>>]
    /\ UNCHANGED <<threads, latest_load_plan, pc, locals>>

\* POST /api/requests
AddRequest(item_type, quantity, priority) ==
    /\ pc = "idle"
    /\ Len(cargo_requests) + quantity <= MaxRequests
    /\ IF item_type \notin DOMAIN ITEM_PRESETS
       THEN /\ response' = [status |-> 400, body |-> <<"Invalid item type">>]
            /\ UNCHANGED <<cargo_requests, request_counter>>
       ELSE /\ cargo_requests' = cargo_requests
                    \o NewRequests(request_counter, item_type, quantity, priority)
            /\ request_counter' = request_counter + RangeLen(quantity)
            /\ response' = [status |-> 200, body |-> <<"Added", quantity, item_type>>]
    /\ UNCHANGED <<threads, latest_load_plan, pc, locals>>

\* GET /api/requests
ListRequests ==
    /\ pc = "idle"
    /\ response' = [status |-> 200, body |-> cargo_requests]
    /\ UNCHANGED <<threads, globals, pc, locals>>

\* variant: clearing the requests keeps the identifier counter
clear_requests_KeepsCounter ==
    /\ pc = "idle"
    /\ cargo_requests' = <<>>
    /\ response' = [status |-> 200, body |-> <<"All requests cleared">>]
    /\ UNCHANGED <<threads, request_counter, latest_load_plan, pc, locals>>

\* POST /api/requests/clear
clear_requests ==
    /\ pc = "idle"
    /\ cargo_requests' = <<>>
    /\ request_counter' = 0
    /\ response' = [status |-> 200, body |-> <<"All requests cleared">>]
    /\ UNCHANGED <<threads, latest_load_plan, pc, locals>>

\* variant: the view tests the request list in place of the stored plan
get_latest_plan_TestsRequests ==
    /\ pc = "idle"
    /\ response' = IF cargo_requests # <<>> /\ latest_load_plan # <<>>
                   THEN [status |-> 200, body |-> latest_load_plan]
                   ELSE [status |-> 404, body |-> <<"No load plan available yet">>]
    /\ UNCHANGED <<threads, globals, pc, locals>>

\* GET /api/latest-plan
get_latest_plan ==
    /\ pc = "idle"
    /\ response' = IF latest_load_plan # <<>>
                   THEN [status |-> 200, body |-> latest_load_plan]
                   ELSE [status |-> 404, body |-> <<"No load plan available yet">>]
    /\ UNCHANGED <<threads, globals, pc, locals>>

----------------------------------------------------------------------------
(* The request store under a threaded server: every request is served by a *)
(* thread of its own and the steps of the threads interleave.  A step is    *)
(* what one thread does between two points where the interpreter may switch *)
(* threads and another thread's step could change what it reads.            *)

\* the threads of a run: two serve one add-request each, one serves a clear
Adders == {"add1", "add2"}
Clearers == {"clear"}
Handlers == Adders \cup Clearers

\* A thread whose request has not arrived yet.  tmp is the counter value loaded by
\* "request_counter += 1" (until it is stored), id the counter value read
\* into the new dict and fresh whether the list object loaded for append is
\* still the global list (both until the append), left counts the passes of
\* the for loop still to run; quantity and inlist (the items of this request
\* in the global list) are kept for the properties.
IdleThread ==
    [pc |-> "idle", item_type |-> "", priority |-> 0, quantity |-> 0, left |-> 0,
     tmp |-> 0, id |-> 0, fresh |-> TRUE, inlist |-> 0]

\* a thread that has returned its response
DoneThread == [IdleThread EXCEPT !.pc = "done"]

NoThreads == [h \in Handlers |-> IdleThread]

RECURSIVE Pending(_)
\* loop passes the threads of S have still to run
Pending(S) ==
    IF S = {} THEN 0
    ELSE LET h == CHOOSE h \in S : TRUE
         IN  threads[h].left + Pending(S \ {h})

\* POST /api/requests arrives at thread h: the fields are read, the item type
\* is checked, the for loop is entered
BeginAdd(h, item_type, quantity, priority) ==
    /\ threads[h].pc = "idle"
    /\ Len(cargo_requests) + Pending(Handlers) + quantity <= MaxRequests
    /\ IF item_type \notin DOMAIN ITEM_PRESETS
       THEN /\ response' = [status |-> 400, body |-> <<"Invalid item type">>]
            /\ threads' = [threads EXCEPT ![h] = DoneThread]
       ELSE IF quantity <= 0
       THEN /\ response' = [status |-> 200, body |-> <<"Added", quantity, item_type>>]
            /\ threads' = [threads EXCEPT ![h] = DoneThread]
       ELSE /\ threads' = [threads EXCEPT ![h] =
                              [IdleThread EXCEPT !.pc = "load", !.item_type = item_type,
                                                 !.priority = priority,
                                                 !.quantity = quantity, !.left = quantity]]
            /\ UNCHANGED response
    /\ UNCHANGED <<globals, pc, locals>>

\* request_counter += 1, first half: the global is loaded
LoadCounter(h) ==
    /\ threads[h].pc = "load"
    /\ threads' = [threads EXCEPT ![h].tmp = request_counter, ![h].pc = "store"]
    /\ UNCHANGED <<globals, pc, locals, response>>

\* request_counter += 1, second half: the sum is stored
StoreCounter(h) ==
    /\ threads[h].pc = "store"
    /\ request_counter' = threads[h].tmp + 1
    /\ threads' = [threads EXCEPT ![h].tmp = 0, ![h].pc = "build"]
    /\ UNCHANGED <<cargo_requests, latest_load_plan, pc, locals, response>>

\* the list object is loaded and the dict is built: "id": request_counter
BuildRequest(h) ==
    /\ threads[h].pc = "build"
    /\ threads' = [threads EXCEPT ![h].id = request_counter, ![h].fresh = TRUE,
                                  ![h].pc = "append"]
    /\ UNCHANGED <<globals, pc, locals, response>>

\* append is called on the list object loaded before; the loop goes on or the
\* handler returns
AppendRequest(h) ==
    /\ threads[h].pc = "append"
    /\ LET t == threads[h]
       IN  /\ cargo_requests' =
                 IF t.fresh
                 THEN Append(cargo_requests, NewRequest(t.id, t.item_type, t.priority))
                 ELSE cargo_requests
           /\ IF t.left = 1
              THEN /\ threads' = [threads EXCEPT ![h] = DoneThread]
                   /\ response' = [status |-> 200,
                                   body |-> <<"Added", t.quantity, t.item_type>>]
              ELSE /\ threads' = [threads EXCEPT
                                     ![h].left = t.left - 1,
                                     ![h].inlist = IF t.fresh THEN t.inlist + 1
                                                   ELSE t.inlist,
                                     ![h].id = 0,
                                     ![h].fresh = TRUE,
                                     ![h].pc = "load"]
                   /\ UNCHANGED response
    /\ UNCHANGED <<request_counter, latest_load_plan, pc, locals>>

\* POST /api/requests/clear at thread h, first statement: cargo_requests = []
\* binds the global to a new list; a list object loaded before is the old one
BeginClear(h) ==
    /\ threads[h].pc = "idle"
    /\ cargo_requests' = <<>>
    /\ threads' = [g \in Handlers |->
                      IF g = h THEN [IdleThread EXCEPT !.pc = "reset"]
                      ELSE IF threads[g].pc = "append"
                      THEN [threads[g] EXCEPT !.fresh = FALSE, !.inlist = 0]
                      ELSE [threads[g] EXCEPT !.inlist = 0]]
    /\ UNCHANGED <<request_counter, latest_load_plan, pc, locals, response>>

\* clear_requests, second statement and return: request_counter = 0
FinishClear(h) ==
    /\ threads[h].pc = "reset"
    /\ request_counter' = 0
    /\ threads' = [threads EXCEPT ![h] = DoneThread]
    /\ response' = [status |-> 200, body |-> <<"All requests cleared">>]
    /\ UNCHANGED <<cargo_requests, latest_load_plan, pc, locals>>

----------------------------------------------------------------------------
(* Specifications *)

\* the item types the model's requests are drawn from: the heaviest preset,
\* the smallest one and the largest one
RequestTypes ==
    {"Water Case (24 bottles)", "Sanitary Pads (20 Pack)", "Pet Supplies Pack"}

\* the priorities the model's requests carry
Priorities == {1, 2}

IdleLocals ==
    /\ pc = "idle"
    /\ bay = NoBay
    /\ sorted_requests = <<>>
    /\ idx = 0
    /\ packed = <<>>
    /\ unpacked = <<>>
    /\ current_weight = 0
    /\ current_volume = 0
    /\ front_left_weight = 0
    /\ front_right_weight = 0
    /\ rear_left_weight = 0
    /\ rear_right_weight = 0
    /\ search_calls = {}

NoResponse == [status |-> 0, body |-> <<>>]

\* the module as loaded: no requests, no plan
Init ==
    /\ cargo_requests = <<>>
    /\ request_counter = 0
    /\ latest_load_plan = <<>>
    /\ response = NoResponse
    /\ IdleLocals
    /\ threads = NoThreads

Optimize ==
    \/ \E b \in Bays : OptimizeStart(b)
    \/ RejectItem
    \/ PlaceItem
    \/ ExhaustItem
    \/ OptimizeFinish

Next ==
    \/ \E t \in {"Sanitary Pads (20 Pack)", "Unknown"} :
         \E q \in 0..MaxQuantity : \E p \in Priorities : AddRequest(t, q, p)
    \/ ListRequests
    \/ clear_requests
    \/ get_latest_plan
    \/ Optimize

\* the sequential program: one handler at a time
Spec == Init /\ [][Next]_vars

\* the request lists that single-unit add-requests build: identifiers 1..n in order
RequestLists ==
    UNION { { [i \in 1..n |-> NewRequest(i, f[i][1], f[i][2])] :
                f \in [1..n -> RequestTypes \X Priorities] } : n \in 0..MaxRequests }

\* the engine on a stored request list: any number of optimize calls
EngineInit ==
    /\ cargo_requests \in RequestLists
    /\ request_counter = Len(cargo_requests)
    /\ latest_load_plan = <<>>
    /\ response = NoResponse
    /\ IdleLocals
    /\ threads = NoThreads

EngineNext == Optimize

EngineSpec == EngineInit /\ [][EngineNext]_vars

\* the constraints of the call made while the threads serve requests: the
\* preset's, the preset's with max_weight 0 and the bay shorter than a step
ConcurrentBays ==
    {b \in Bays : b.max_length = 72 \/ (b.max_length = 760 /\ b.max_height = 260)}

\* the one optimize_cargo call of a run of the threaded server
OneOptimize ==
    \/ latest_load_plan = <<>> /\ (\E b \in ConcurrentBays : OptimizeStart(b))
    \/ RejectItem
    \/ PlaceItem
    \/ ExhaustItem
    \/ OptimizeFinish

\* the quantities of the add-requests served while threads interleave: a
\* single item and the shortest loop that another thread can cut in two
ConcurrentQuantities == {1, 2}

ConcurrentNext ==
    \/ \E h \in Adders : \E q \in ConcurrentQuantities :
          BeginAdd(h, "Sanitary Pads (20 Pack)", q, 1)
    \/ \E h \in Adders : LoadCounter(h)
    \/ \E h \in Adders : StoreCounter(h)
    \/ \E h \in Adders : BuildRequest(h)
    \/ \E h \in Adders : AppendRequest(h)
    \/ \E h \in Clearers : BeginClear(h)
    \/ \E h \in Clearers : FinishClear(h)
    \/ OneOptimize

\* the threaded server: two add-requests, a clear and an optimize_cargo call
\* whose steps interleave
ConcurrentSpec == Init /\ [][ConcurrentNext]_vars

\* boxes_overlap on its own: two boxes, each a minimum corner and extents
Boxes ==
    [x : 0..MaxCoord, y : 0..MaxCoord, z : 0..MaxCoord,
     l : {1, 2}, w : {1, 2}, h : {1, 2}]

\* a call of boxes_overlap is about to be made with two boxes
CollisionInit ==
    /\ cargo_requests = <<>>
    /\ request_counter = 0
    /\ latest_load_plan = <<>>
    /\ response \in {[status |-> 0, body |-> <<b1, b2>>] : b1, b2 \in Boxes}
    /\ IdleLocals
    /\ threads = NoThreads

\* the call returns
CallBoxesOverlap ==
    /\ Len(response.body) = 2
    /\ LET b1 == response.body[1]
           b2 == response.body[2]
       IN  response' = [status |-> 0,
                        body |-> <<b1, b2,
                                   boxes_overlap(b1.x, b1.y, b1.z, b1.l, b1.w, b1.h,
                                                 b2.x, b2.y, b2.z, b2.l, b2.w, b2.h)>>]
    /\ UNCHANGED <<threads, globals, pc, locals>>

CollisionNext == CallBoxesOverlap

CollisionSpec == CollisionInit /\ [][CollisionNext]_vars

----------------------------------------------------------------------------
(* Vocabulary of the properties *)

PlanStored == latest_load_plan # <<>>
Plan == latest_load_plan[1]

\* the box of a packed item on one axis: centre minus / plus half the extent, doubled
Lo(p, axis) ==
    IF axis = "x" THEN 2 * p.position.x - p.length
    ELSE IF axis = "y" THEN 2 * p.position.y - p.width
    ELSE 2 * p.position.z - p.height
Hi(p, axis) ==
    IF axis = "x" THEN 2 * p.position.x + p.length
    ELSE IF axis = "y" THEN 2 * p.position.y + p.width
    ELSE 2 * p.position.z + p.height

Axes == {"x", "y", "z"}

\* separated or merely touching on axis a
Apart(p, q, a) == Hi(p, a) <= Lo(q, a) \/ Hi(q, a) <= Lo(p, a)

NoTwoOverlap(pk) ==
    \A i, j \in 1..Len(pk) : i < j => \E a \in Axes : Apart(pk[i], pk[j], a)

\* the bay's extent on one axis, doubled
BayHi(b, axis) ==
    IF axis = "x" THEN 2 * b.max_length
    ELSE IF axis = "y" THEN 2 * b.max_width
    ELSE 2 * b.max_height

AllInside(pk, b) ==
    \A i \in 1..Len(pk) : \A a \in Axes : Lo(pk[i], a) >= 0 /\ Hi(pk[i], a) <= BayHi(b, a)

RECURSIVE WeightOf(_)
WeightOf(s) == IF s = <<>> THEN 0 ELSE Head(s).weight + WeightOf(Tail(s))

RECURSIVE VolumeOf(_)
VolumeOf(s) ==
    IF s = <<>> THEN 0
    ELSE Head(s).length * Head(s).width * Head(s).height + VolumeOf(Tail(s))

WithinCapacity(pk, b) ==
    /\ WeightOf(pk) <= b.max_weight
    /\ VolumeOf(pk) <= b.max_length * b.max_width * b.max_height

\* the constraints a stored plan was computed for
PlanBay ==
    [max_weight |-> Plan.stats.max_weight, max_length |-> Plan.aircraft.max_length,
     max_width |-> Plan.aircraft.max_width, max_height |-> Plan.aircraft.max_height]

Ids(s) == {s[i].id : i \in 1..Len(s)}

----------------------------------------------------------------------------
(* Properties of the engine, checked under EngineSpec *)

\* C1: no two packed items have overlapping boxes, in the loop and in the
\* stored result: every pair is separated or merely touching on some axis.
C1_NoOverlap ==
    /\ NoTwoOverlap(packed)
    /\ PlanStored => NoTwoOverlap(Plan.packed)

\* a result with two packed items that share a boundary face
C1_Witness ==
    /\ PlanStored
    /\ \E i, j \in 1..Len(Plan.packed) :
          /\ i < j
          /\ \E a \in Axes :
                /\ \/ Hi(Plan.packed[i], a) = Lo(Plan.packed[j], a)
                   \/ Hi(Plan.packed[j], a) = Lo(Plan.packed[i], a)
                /\ \A a2 \in Axes \ {a} : ~Apart(Plan.packed[i], Plan.packed[j], a2)

\* C2: every packed item's box lies inside the bay: minimum corner >= 0 and
\* maximum corner <= max_length, max_width, max_height.
C2_InsideBay ==
    /\ pc = "loop" => AllInside(packed, bay)
    /\ PlanStored => AllInside(Plan.packed, PlanBay)

\* a result with a packed item whose far face lies on the bay's wall
C2_Witness ==
    /\ PlanStored
    /\ \E i \in 1..Len(Plan.packed) :
          Hi(Plan.packed[i], "y") = BayHi(PlanBay, "y")

\* C3: at every step of the loop and in the result, the packed weights sum to
\* at most max_weight and the packed volumes to at most the bay's volume.
C3_WithinCapacity ==
    /\ pc = "loop" => WithinCapacity(packed, bay)
    /\ PlanStored => WithinCapacity(Plan.packed, PlanBay)

\* a result where an item was left out only because the weight budget was spent
C3_Witness ==
    /\ PlanStored
    /\ Plan.packed # <<>>
    /\ \E i \in 1..Len(Plan.unpacked) :
          LET u == Plan.unpacked[i]
          IN  /\ u.weight <= PlanBay.max_weight
              /\ WeightOf(Plan.packed) + u.weight > PlanBay.max_weight
              /\ VolumeOf(Plan.packed) + VolumeOf(<<u>>)
                    <= PlanBay.max_length * PlanBay.max_width * PlanBay.max_height
              /\ u.length <= PlanBay.max_length

\* C4: the identifiers of packed and unpacked are disjoint, without
\* duplicates, and together exactly those of the request list.
C4_Partition ==
    PlanStored =>
        /\ Ids(Plan.packed) \cap Ids(Plan.unpacked) = {}
        /\ Cardinality(Ids(Plan.packed)) = Len(Plan.packed)
        /\ Cardinality(Ids(Plan.unpacked)) = Len(Plan.unpacked)
        /\ Ids(Plan.packed) \cup Ids(Plan.unpacked) = Ids(cargo_requests)

\* a result that has both packed and unpacked items, one of them unpacked by the search
C4_Witness ==
    /\ PlanStored
    /\ Len(Plan.packed) >= 2
    /\ \E i \in 1..Len(Plan.unpacked) :
          /\ WeightOf(Plan.packed) + Plan.unpacked[i].weight <= PlanBay.max_weight
          /\ Plan.unpacked[i].length <= PlanBay.max_length

\* the requests a stored plan accounts for, positions removed
PlanRequests ==
    {NewRequest(r.id, r.item_type, r.priority) :
        r \in {Plan.packed[i] : i \in 1..Len(Plan.packed)}
              \cup {Plan.unpacked[i] : i \in 1..Len(Plan.unpacked)}}

\* the running call has the inputs the stored plan was computed from
SameInputsAsPlan ==
    /\ PlanStored
    /\ PlanBay = bay
    /\ PlanRequests = {cargo_requests[i] : i \in 1..Len(cargo_requests)}
    /\ Len(Plan.packed) + Len(Plan.unpacked) = Len(cargo_requests)

\* C5: a call that completes with the request list and constraints of the
\* stored plan produces the same packed sequence, positions included, and
\* the same unpacked sequence, whatever calls came before.
C5_Deterministic ==
    [][(pc = "loop" /\ pc' = "idle" /\ SameInputsAsPlan)
          => /\ latest_load_plan'[1].packed = Plan.packed
             /\ latest_load_plan'[1].unpacked = Plan.unpacked]_vars

\* a second call on the inputs of the stored plan is about to return, with
\* two items packed and one left out
C5_Witness ==
    /\ pc = "loop"
    /\ idx > Len(sorted_requests)
    /\ SameInputsAsPlan
    /\ Len(packed) >= 2
    /\ unpacked # <<>>

\* place of a request in the request list
IndexOf(r) == CHOOSE i \in 1..Len(cargo_requests) : cargo_requests[i].id = r.id

\* a is evaluated before b: higher priority, then higher weight, then list order
Before(a, b) ==
    \/ a.priority > b.priority
    \/ a.priority = b.priority /\ a.weight > b.weight
    \/ a.priority = b.priority /\ a.weight = b.weight /\ IndexOf(a) < IndexOf(b)

InEvaluationOrder(s) == \A i, j \in 1..Len(s) : i < j => Before(s[i], s[j])

\* C6: items are evaluated by priority descending, then weight descending,
\* ties in request-list order; packed and unpacked are subsequences of that
\* order, and a packed item of higher priority precedes one of lower priority.
C6_EvaluationOrder ==
    /\ pc = "loop" =>
          /\ Len(sorted_requests) = Len(cargo_requests)
          /\ Ids(sorted_requests) = Ids(cargo_requests)
          /\ InEvaluationOrder(sorted_requests)
          /\ Ids(packed) \cup Ids(unpacked) = {sorted_requests[i].id : i \in 1..(idx - 1)}
          /\ InEvaluationOrder(packed)
          /\ InEvaluationOrder(unpacked)
    /\ PlanStored =>
          /\ InEvaluationOrder(Plan.packed)
          /\ InEvaluationOrder(Plan.unpacked)
          /\ \A i, j \in 1..Len(Plan.packed) :
                Plan.packed[i].priority > Plan.packed[j].priority => i < j

\* a result whose packed items were reordered both by priority and by weight
C6_Witness ==
    /\ PlanStored
    /\ \E i, j \in 1..Len(Plan.packed) :
          /\ i < j
          /\ Plan.packed[i].id > Plan.packed[j].id
          /\ Plan.packed[i].priority > Plan.packed[j].priority
    /\ \E i, j \in 1..Len(Plan.packed) :
          /\ i < j
          /\ Plan.packed[i].id > Plan.packed[j].id
          /\ Plan.packed[i].priority = Plan.packed[j].priority
          /\ Plan.packed[i].weight > Plan.packed[j].weight

\* the capacity pre-check fails for the item the loop is at
PreCheckFails ==
    LET item == sorted_requests[idx]
    IN  \/ current_weight + item.weight > bay.max_weight
        \/ current_volume + item.length * item.width * item.height
              > bay.max_length * bay.max_width * bay.max_height
        \/ item.length > bay.max_length
        \/ item.width > bay.max_width
        \/ item.height > bay.max_height

\* C7: an item goes to unpacked without a call of the placement search
\* exactly when the pre-check fails; an item longer than max_length always
\* ends in unpacked.
C7_PreCheck ==
    /\ [][(pc = "loop" /\ idx' = idx + 1)
            => LET item == sorted_requests[idx]
               IN  /\ (unpacked' = Append(unpacked, item) /\ item.id \notin search_calls')
                         <=> PreCheckFails
                   /\ item.length > bay.max_length => unpacked' = Append(unpacked, item)]_vars
    /\ [](PlanStored =>
            \A i \in 1..Len(cargo_requests) :
                cargo_requests[i].length > PlanBay.max_length
                    => cargo_requests[i].id \in Ids(Plan.unpacked))

\* an item longer than the bay was rejected without a search although the
\* weight and volume budgets would have admitted it, after another item was searched
C7_Witness ==
    /\ pc = "loop"
    /\ search_calls # {}
    /\ \E i \in 1..Len(unpacked) :
          /\ unpacked[i].length > bay.max_length
          /\ unpacked[i].id \notin search_calls
          /\ current_weight + unpacked[i].weight <= bay.max_weight
          /\ current_volume + VolumeOf(<<unpacked[i]>>)
                <= bay.max_length * bay.max_width * bay.max_height

\* C8: with an empty request list the result has nothing packed or unpacked,
\* balance score 100, centre of gravity (0,0,0), utilizations 0 and
\* left/right weights 0.
C8_EmptyInput ==
    (PlanStored /\ cargo_requests = <<>>) =>
        /\ Plan.packed = <<>>
        /\ Plan.unpacked = <<>>
        /\ Plan.stats.balance_score = 1000
        /\ Plan.stats.center_of_gravity = [x |-> 0, y |-> 0, z |-> 0]
        /\ Plan.stats.weight_utilization = 0
        /\ Plan.stats.volume_utilization = 0
        /\ Plan.stats.left_weight = 0
        /\ Plan.stats.right_weight = 0
        /\ response.body = latest_load_plan

\* an optimize call on the empty list has returned
C8_Witness ==
    /\ PlanStored
    /\ cargo_requests = <<>>
    /\ response.status = 200
    /\ PlanBay = BlackHawk

PositiveBay(b) == b.max_length > 0 /\ b.max_width > 0 /\ b.max_height > 0

StrictlySmaller(item, b) ==
    item.length < b.max_length /\ item.width < b.max_width /\ item.height < b.max_height

\* C9: a single item strictly smaller than a bay of positive dimensions, and
\* not heavier than max_weight, is packed and nothing is unpacked.
C9_SingleItemPacked ==
    (/\ PlanStored
     /\ Len(cargo_requests) = 1
     /\ PositiveBay(PlanBay)
     /\ StrictlySmaller(cargo_requests[1], PlanBay)
     /\ cargo_requests[1].weight <= PlanBay.max_weight)
        => /\ Len(Plan.packed) = 1
           /\ Plan.packed[1].id = cargo_requests[1].id
           /\ Plan.unpacked = <<>>

\* exactly one item is packed, and it is smaller than the bay on all axes
OnePackedSmaller ==
    /\ PlanStored
    /\ Len(Plan.packed) = 1
    /\ PositiveBay(PlanBay)
    /\ StrictlySmaller(Plan.packed[1], PlanBay)

\* C10 as claimed: one packed item smaller than the bay gives balance score 100.
C10_SingleItemScore100 ==
    OnePackedSmaller => Plan.stats.balance_score = 1000

\* C10 as amended: with one packed item smaller than the bay, the item's
\* centre differs from the bay's centre, so the score
\* 100 - 50 * (|cx - L/2| / (L/2) + |cy - W/2| / (W/2)) is below 100, and the
\* reported score is that value rounded to one decimal.
C10_SingleItemScore ==
    OnePackedSmaller =>
        LET p == Plan.packed[1]
            L == PlanBay.max_length
            W == PlanBay.max_width
            dx == IF 2 * p.position.x >= L THEN 2 * p.position.x - L ELSE L - 2 * p.position.x
            dy == IF 2 * p.position.y >= W THEN 2 * p.position.y - W ELSE W - 2 * p.position.y
            X == dx * W + dy * L
            e == 2 * Plan.stats.balance_score * L * W - 2000 * L * W + 1000 * X
        IN  /\ X > 0
            /\ e <= L * W
            /\ -e <= L * W

\* a single request, packed, in the preset bay
C10_Witness ==
    /\ OnePackedSmaller
    /\ Len(cargo_requests) = 1
    /\ PlanBay = BlackHawk
    /\ Plan.stats.balance_score < 1000

\* C11: with a non-positive max_weight or bay dimension the call fails before
\* any item is evaluated: the loop is never entered with such constraints and
\* no result is produced for them.
C11_InvalidConstraintFails ==
    /\ pc = "loop" => (bay.max_weight > 0 /\ PositiveBay(bay))
    /\ PlanStored => (PlanBay.max_weight > 0 /\ PositiveBay(PlanBay))

\* an item was appended to unpacked by this step
ItemRejected == pc = "loop" /\ pc' = "loop" /\ Len(unpacked') = Len(unpacked) + 1

\* C12: a rejection does not stop the batch: the loop moves on to the next
\* item with the running weight, running volume, quadrant weights and packed
\* list unchanged, and the call only returns once every item was evaluated.
C12_RejectionContinues ==
    /\ [][ItemRejected =>
            /\ idx' = idx + 1
            /\ sorted_requests' = sorted_requests
            /\ packed' = packed
            /\ current_weight' = current_weight
            /\ current_volume' = current_volume
            /\ front_left_weight' = front_left_weight
            /\ front_right_weight' = front_right_weight
            /\ rear_left_weight' = rear_left_weight
            /\ rear_right_weight' = rear_right_weight]_vars
    /\ [][(pc = "loop" /\ pc' = "idle") =>
            /\ Len(packed) + Len(unpacked) = Len(cargo_requests)
            /\ Len(latest_load_plan'[1].packed) + Len(latest_load_plan'[1].unpacked)
                  = Len(cargo_requests)]_vars

\* a result in which an item was packed after an earlier item of the sorted
\* order was rejected for its weight
C12_Witness ==
    /\ PlanStored
    /\ \E i \in 1..Len(Plan.unpacked) : \E j \in 1..Len(Plan.packed) :
          /\ Before(Plan.unpacked[i], Plan.packed[j])
          /\ WeightOf(SubSeq(Plan.packed, 1, j - 1)) + Plan.unpacked[i].weight
                > PlanBay.max_weight

\* the open intervals [lo, lo + ext) of two boxes intersect on each axis
StrictlyOverlapping(b1, b2) ==
    /\ b1.x < b2.x + b2.l /\ b2.x < b1.x + b1.l
    /\ b1.y < b2.y + b2.w /\ b2.y < b1.y + b1.w
    /\ b1.z < b2.z + b2.h /\ b2.z < b1.z + b1.h

\* one box ends where the other begins, on some axis
SharingBoundary(b1, b2) ==
    \/ b1.x + b1.l = b2.x \/ b2.x + b2.l = b1.x
    \/ b1.y + b1.w = b2.y \/ b2.y + b2.w = b1.y
    \/ b1.z + b1.h = b2.z \/ b2.z + b2.h = b1.z

\* C13 (under CollisionSpec): boxes_overlap is true exactly when the
\* projections overlap strictly on all three axes, false when a maximum
\* coordinate of one box equals a minimum coordinate of the other, and the
\* same for the two boxes swapped.
C13_BoxesOverlap ==
    Len(response.body) = 3 =>
        LET b1 == response.body[1]
            b2 == response.body[2]
            r == response.body[3]
        IN  /\ r <=> StrictlyOverlapping(b1, b2)
            /\ SharingBoundary(b1, b2) => ~r
            /\ r <=> boxes_overlap(b2.x, b2.y, b2.z, b2.l, b2.w, b2.h,
                                   b1.x, b1.y, b1.z, b1.l, b1.w, b1.h)

\* the call returned false for two boxes that share a face: they touch on x
\* and overlap strictly on y and z
C13_Witness ==
    /\ Len(response.body) = 3
    /\ LET b1 == response.body[1]
           b2 == response.body[2]
       IN  /\ b1.x + b1.l = b2.x
           /\ b1.y < b2.y + b2.w /\ b2.y < b1.y + b1.w
           /\ b1.z < b2.z + b2.h /\ b2.z < b1.z + b1.h
           /\ response.body[3] = FALSE

\* a step of an optimize_cargo call
OptimizeStep == pc = "loop" \/ pc' = "loop"

\* C14 as claimed: an optimize_cargo call changes no program state that
\* outlives the call and the program keeps no reference to the result.
C14_SideEffectFree ==
    [][OptimizeStep =>
         /\ cargo_requests' = cargo_requests
         /\ request_counter' = request_counter
         /\ latest_load_plan' = latest_load_plan]_vars

\* C14 as amended: the one piece of lasting state an optimize_cargo call
\* changes is latest_load_plan, which it sets on return to the very result
\* it returns; the request list and the identifier counter are unchanged.
C14_OnlyPlanStored ==
    [][OptimizeStep =>
         /\ cargo_requests' = cargo_requests
         /\ request_counter' = request_counter
         /\ IF pc = "loop" /\ pc' = "idle"
            THEN /\ latest_load_plan' # <<>>
                 /\ latest_load_plan' = response'.body
            ELSE latest_load_plan' = latest_load_plan]_vars

\* a call on a non-empty request list has returned and its result is the stored plan
C14_Witness ==
    /\ pc = "idle"
    /\ PlanStored
    /\ response.status = 200
    /\ response.body = latest_load_plan
    /\ Len(Plan.packed) + Len(Plan.unpacked) = Len(cargo_requests)
    /\ Plan.packed # <<>>

RequestFields == {"id", "item_type", "priority", "weight", "length", "width", "height"}

\* C15: optimize_cargo leaves the request list and the identifier counter as
\* they were, order and fields included; the position is attached to the
\* packed copy, never to the stored request.
C15_RequestsUntouched ==
    /\ [][OptimizeStep => UNCHANGED <<cargo_requests, request_counter>>]_vars
    /\ [](/\ \A i \in 1..Len(cargo_requests) : DOMAIN cargo_requests[i] = RequestFields
          /\ \A i \in 1..Len(packed) :
                DOMAIN packed[i] = RequestFields \cup {"position"})

\* the loop works on a reordered copy and has attached a position to a packed item
C15_Witness ==
    /\ pc = "loop"
    /\ sorted_requests # cargo_requests
    /\ packed # <<>>
    /\ \E i \in 1..Len(cargo_requests) : cargo_requests[i].id = packed[1].id

----------------------------------------------------------------------------
(* Properties of the placement search, checked under EngineSpec *)

Quadrants == {<<0, 0>>, <<0, 1>>, <<1, 0>>, <<1, 1>>}

\* minimum corner of a packed item
CornerOf(p) ==
    [x |-> p.position.x - p.length \div 2, y |-> p.position.y - p.width \div 2,
     z |-> p.position.z - p.height \div 2]

\* the quadrant whose sub-rectangle holds the minimum corner of a packed item:
\* the quadrant whose scan produced it
QuadrantOf(p, b) ==
    <<IF 2 * CornerOf(p).x >= b.max_length THEN 1 ELSE 0,
      IF 2 * CornerOf(p).y >= b.max_width THEN 1 ELSE 0>>

\* C16: every position the search returns keeps the item's box inside the
\* sub-rectangle of the scanned quadrant and inside the bay's height.
C16_InsideQuadrant ==
    pc = "loop" =>
        \A i \in 1..Len(packed) :
            LET q == QuadrantOf(packed[i], bay)
            IN  /\ Hi(packed[i], "x") <= 2 * x_end(q, bay.max_length)
                /\ Hi(packed[i], "y") <= 2 * y_end(q, bay.max_width)
                /\ Hi(packed[i], "z") <= 2 * bay.max_height

\* some lattice point of quadrant q is in bounds and collision-free for the item
HasCandidate(q, pk, item, b) ==
    \E z \in LatticeZ(b.max_height) :
        \E y \in LatticeY(q, b.max_width) :
            \E x \in LatticeX(q, b.max_length) :
                Candidate(pk, x, y, z, item, b.max_length, b.max_width, b.max_height)

\* place of a quadrant in the fixed order rear-right, front-right, rear-left, front-left
FixedRank(q) ==
    IF q = <<1, 1>> THEN 1 ELSE IF q = <<0, 1>> THEN 2 ELSE IF q = <<1, 0>> THEN 3 ELSE 4

\* place of a quadrant in the tie order front-left, front-right, rear-left, rear-right
TieRank(q) ==
    IF q = <<0, 0>> THEN 1 ELSE IF q = <<0, 1>> THEN 2 ELSE IF q = <<1, 0>> THEN 3 ELSE 4

\* the accumulated weight of a quadrant in the current state
WeightIn(q) ==
    IF q = <<0, 0>> THEN front_left_weight
    ELSE IF q = <<0, 1>> THEN front_right_weight
    ELSE IF q = <<1, 0>> THEN rear_left_weight
    ELSE rear_right_weight

\* q1 is tried before q2 in the current state
TriedBefore(q1, q2) ==
    IF current_weight = 0 THEN FixedRank(q1) < FixedRank(q2)
    ELSE \/ WeightIn(q1) < WeightIn(q2)
         \/ WeightIn(q1) = WeightIn(q2) /\ TieRank(q1) < TieRank(q2)

\* an item was committed by this step
ItemCommitted == pc = "loop" /\ pc' = "loop" /\ Len(packed') = Len(packed) + 1

\* the item committed by this step, as stored in packed
Committed == packed'[Len(packed')]

\* C17: the quadrants are tried in the fixed order while nothing is committed
\* and lightest first afterwards (ties front-left, front-right, rear-left,
\* rear-right), and an item is placed in a quadrant only if no quadrant
\* tried before it has a candidate.
C17_QuadrantOrder ==
    /\ [](pc = "loop" =>
            LET tq == target_quadrants(front_left_weight, front_right_weight,
                                       rear_left_weight, rear_right_weight)
            IN  /\ Len(tq) = 4
                /\ \A i, j \in 1..4 : i < j => TriedBefore(tq[i], tq[j]))
    /\ [][ItemCommitted =>
            \A q \in Quadrants :
                TriedBefore(q, QuadrantOf(Committed, bay))
                    => ~HasCandidate(q, packed, sorted_requests[idx], bay)]_vars

\* weight is committed, two quadrants tie, the lightest quadrant has no
\* candidate for the current item and a later one has
C17_Witness ==
    /\ InLoop
    /\ ~PreCheckFails
    /\ current_weight > 0
    /\ \E q \in Quadrants :
          /\ \A q2 \in Quadrants \ {q} : TriedBefore(q, q2)
          /\ ~HasCandidate(q, packed, sorted_requests[idx], bay)
    /\ \E q \in Quadrants : HasCandidate(q, packed, sorted_requests[idx], bay)

\* corner c comes no later than lattice point (x, y, z) in the scan
ScannedFirst(c, x, y, z) ==
    \/ c.z < z
    \/ c.z = z /\ c.y < y
    \/ c.z = z /\ c.y = y /\ c.x <= x

\* C18: the returned corner is a lattice point of its quadrant at the 0.2 m
\* step, in bounds and collision-free, and no other such point of the
\* quadrant comes before it in the order z, then y, then x.
C18_FirstFit ==
    [][ItemCommitted =>
         LET c == CornerOf(Committed)
             q == QuadrantOf(Committed, bay)
             item == sorted_requests[idx]
         IN  /\ c.z % 40 = 0 /\ c.z >= 0
             /\ (c.y - y_start(q, bay.max_width)) % 40 = 0
             /\ (c.x - x_start(q, bay.max_length)) % 40 = 0
             /\ Candidate(packed, c.x, c.y, c.z, item,
                          bay.max_length, bay.max_width, bay.max_height)
             /\ \A z \in LatticeZ(bay.max_height) :
                   \A y \in LatticeY(q, bay.max_width) :
                      \A x \in LatticeX(q, bay.max_length) :
                         Candidate(packed, x, y, z, item,
                                   bay.max_length, bay.max_width, bay.max_height)
                             => ScannedFirst(c, x, y, z)]_vars

\* an item was placed on the ground in the second row of a quadrant whose
\* first point was taken by an item low enough to leave the level above it free
C18_Witness ==
    /\ pc = "loop"
    /\ \E i \in 1..Len(packed) :
          /\ CornerOf(packed[i]).z = 0
          /\ CornerOf(packed[i]).y > y_start(QuadrantOf(packed[i], bay), bay.max_width)
          /\ \E j \in 1..(i - 1) :
                /\ QuadrantOf(packed[j], bay) = QuadrantOf(packed[i], bay)
                /\ CornerOf(packed[j]).x = CornerOf(packed[i]).x
                /\ Hi(packed[j], "z") <= 2 * 40

\* C19: an item that passes the pre-check goes to unpacked exactly when no
\* lattice point of any quadrant is in bounds and collision-free for it;
\* otherwise it is packed.
C19_ExhaustionOnly ==
    [][(pc = "loop" /\ idx' = idx + 1 /\ ~PreCheckFails) =>
         LET item == sorted_requests[idx]
         IN  IF \E q \in Quadrants : HasCandidate(q, packed, item, bay)
             THEN /\ ItemCommitted
                  /\ Committed.id = item.id
                  /\ unpacked' = unpacked
             ELSE /\ unpacked' = Append(unpacked, item)
                  /\ packed' = packed]_vars

\* an item that passed the pre-check was left out by the search although the
\* first quadrants tried were full and items are packed
C19_Witness ==
    /\ pc = "loop"
    /\ Len(packed) >= 2
    /\ \E i \in 1..Len(unpacked) : unpacked[i].id \in search_calls

\* C20: a commit appends the item with its position to packed, adds its
\* weight and volume to the running totals and its weight to the one
\* quadrant given by centre x < max_length/2 (front) and centre
\* y < max_width/2 (left); the other three quadrant weights stay.
C20_Commit ==
    [][ItemCommitted =>
         LET item == sorted_requests[idx]
             p == Committed
             front == 2 * p.position.x < bay.max_length
             left == 2 * p.position.y < bay.max_width
             Gain(f, l) == IF (front <=> f) /\ (left <=> l) THEN item.weight ELSE 0
         IN  /\ SubSeq(packed', 1, Len(packed)) = packed
             /\ [id |-> p.id, item_type |-> p.item_type, priority |-> p.priority,
                 weight |-> p.weight, length |-> p.length, width |-> p.width,
                 height |-> p.height] = item
             /\ current_weight' = current_weight + item.weight
             /\ current_volume' = current_volume + item.length * item.width * item.height
             /\ front_left_weight' = front_left_weight + Gain(TRUE, TRUE)
             /\ front_right_weight' = front_right_weight + Gain(TRUE, FALSE)
             /\ rear_left_weight' = rear_left_weight + Gain(FALSE, TRUE)
             /\ rear_right_weight' = rear_right_weight + Gain(FALSE, FALSE)]_vars

\* an item whose centre lies exactly on the length midline was committed and
\* counted as rear
C20_Witness ==
    /\ pc = "loop"
    /\ \E i \in 1..Len(packed) :
          /\ 2 * packed[i].position.x = bay.max_length
          /\ 2 * packed[i].position.y < bay.max_width
    /\ rear_left_weight > 0
    /\ front_left_weight = 0

\* total weight of the packed items whose minimum corner lies in quadrant q
ScannedWeight(pk, q, b) ==
    SumOver([i \in 1..Len(pk) |->
                IF QuadrantOf(pk[i], b) = q THEN pk[i].weight ELSE 0], Len(pk))

\* C21: the weight of every committed item is added to the quadrant whose
\* scan produced its position, so each quadrant weight is the total weight
\* of the items placed by that quadrant's scan.
C21_ScannedQuadrantGains ==
    pc = "loop" => \A q \in Quadrants : WeightIn(q) = ScannedWeight(packed, q, bay)

\* the planner as a function agrees with the stored plan of the call
PlanIsPlanOf == PlanStored => Plan = PlanOf(cargo_requests, PlanBay)

\* reported balance score, in tenths of a point
ScoreOf(plan) == plan.stats.balance_score

\* C22: some request list and some bay that a call may be made with make the
\* reported balance score negative or greater than 100.
C22_SomeScoreOutOfRange ==
    pc = "idle" =>
        \E b \in Bays : \E rl \in RequestLists :
            ScoreOf(PlanOf(rl, b)) < 0 \/ ScoreOf(PlanOf(rl, b)) > 1000

\* C22, amended: every reported balance score lies between 0 and 100.
C22_ScoreInRange ==
    PlanStored => (0 <= ScoreOf(Plan) /\ ScoreOf(Plan) <= 1000)

\* a plan whose packed items sit so far off centre that the score is below 20
C22_Witness ==
    /\ PlanStored
    /\ Plan.packed # <<>>
    /\ ScoreOf(Plan) < 200

\* total weight of the items of pk whose centre y is below max_width / 2
LeftOf(pk, max_width) ==
    SumOver([i \in 1..Len(pk) |->
                IF 2 * pk[i].position.y < max_width THEN pk[i].weight ELSE 0], Len(pk))

\* C23: during the loop the four quadrant weights add up to the running
\* weight of the packed items; in the result left_weight is the weight of
\* the packed items whose centre y is below max_width / 2, right_weight the
\* weight of the others, and the two add up to total_weight.
C23_WeightSums ==
    /\ pc = "loop" =>
          /\ front_left_weight + front_right_weight
                + rear_left_weight + rear_right_weight = current_weight
          /\ current_weight = WeightOf(packed)
    /\ PlanStored =>
          /\ Plan.stats.left_weight = LeftOf(Plan.packed, PlanBay.max_width)
          /\ Plan.stats.right_weight
                = WeightOf(Plan.packed) - LeftOf(Plan.packed, PlanBay.max_width)
          /\ Plan.stats.left_weight + Plan.stats.right_weight = Plan.stats.total_weight

\* a plan with weight on both sides, some of the left weight in the rear
C23_Witness ==
    /\ PlanStored
    /\ Plan.stats.left_weight > 0
    /\ Plan.stats.right_weight > 0
    /\ \E i \in 1..Len(Plan.packed) :
          /\ 2 * Plan.packed[i].position.y < PlanBay.max_width
          /\ 2 * Plan.packed[i].position.x >= PlanBay.max_length

\* what a plan says of the request with identifier id: unpacked, or packed at a position
OutcomeIn(plan, id) ==
    IF \E i \in 1..Len(plan.packed) : plan.packed[i].id = id
    THEN LET i == CHOOSE i \in 1..Len(plan.packed) : plan.packed[i].id = id
         IN  <<"packed", plan.packed[i].position>>
    ELSE <<"unpacked">>

\* requests without the requests whose identifiers are in removed
Without(requests, removed) ==
    LET keep == {i \in 1..Len(requests) : requests[i].id \notin removed}
        F[i \in 0..Len(requests)] ==
            IF i = 0 THEN <<>>
            ELSE IF i \in keep THEN Append(F[i - 1], requests[i]) ELSE F[i - 1]
    IN  F[Len(requests)]

\* C24: the outcome of an item in the stored plan is its outcome in the plan
\* of every request list obtained by removing items that come after it in
\* sorted order, under the same constraints.
C24_LaterItemsIrrelevant ==
    (pc = "idle" /\ PlanStored) =>
        LET sorted == SortRequests(cargo_requests)
        IN  \A k \in 1..Len(sorted) :
                \A removed \in SUBSET {sorted[j].id : j \in (k + 1)..Len(sorted)} :
                    OutcomeIn(PlanOf(Without(cargo_requests, removed), PlanBay),
                              sorted[k].id)
                        = OutcomeIn(Plan, sorted[k].id)

\* a plan in which an item is packed although an item after it in sorted
\* order is left out, its removal changing what the list weighs in total
C24_Witness ==
    /\ PlanStored
    /\ \E i \in 1..Len(Plan.packed) : \E j \in 1..Len(Plan.unpacked) :
          /\ Before(Plan.packed[i], Plan.unpacked[j])
          /\ WeightOf(cargo_requests) > PlanBay.max_weight

----------------------------------------------------------------------------
(* Properties of the request store and the plan view, checked under Spec *)

\* C25: the identifiers in the request list are 1..n in list order and the
\* counter is n; a step that empties the list resets the counter, and the
\* first item added to an empty list gets identifier 1.
C25_Identifiers ==
    /\ [](/\ \A i \in 1..Len(cargo_requests) : cargo_requests[i].id = i
          /\ request_counter = Len(cargo_requests))
    /\ [][(cargo_requests # <<>> /\ cargo_requests' = <<>>)
             => request_counter' = 0]_vars
    /\ [][(cargo_requests = <<>> /\ cargo_requests' # <<>>)
             => cargo_requests'[1].id = 1]_vars

\* a plan of two packed requests is stored and the list now holds one request
\* with identifier 1: the list was cleared and added to again
C25_Witness ==
    /\ pc = "idle"
    /\ PlanStored
    /\ Len(Plan.packed) = 2
    /\ Len(cargo_requests) = 1
    /\ cargo_requests[1].id = 1

\* an optimize_cargo call returns in this step
OptimizeReturns == pc = "loop" /\ pc' = "idle"

\* C26: the view answers "no plan" exactly while no plan is stored and the
\* stored plan otherwise; no plan is stored until an optimize_cargo call
\* returns, the stored plan changes only when a call returns and is then the
\* result of that call, so adding and clearing requests leave it alone.
C26_LatestPlan ==
    /\ [](response.status = 404 => latest_load_plan = <<>>)
    /\ [](pc = "idle" =>
            IF latest_load_plan = <<>>
            THEN ENABLED (get_latest_plan /\ response'.status = 404)
            ELSE ENABLED (get_latest_plan /\ response'.status = 200
                          /\ response'.body = latest_load_plan))
    /\ [][latest_load_plan' # latest_load_plan => OptimizeReturns]_vars
    /\ [][OptimizeReturns =>
            latest_load_plan' = <<PlanOf(cargo_requests, bay)>>]_vars

\* a plan of packed items is still stored, and the view would answer with it,
\* although the request list has been cleared since
C26_Witness ==
    /\ pc = "idle"
    /\ PlanStored
    /\ Plan.packed # <<>>
    /\ cargo_requests = <<>>
    /\ request_counter = 0
    /\ ENABLED (get_latest_plan /\ response'.status = 200)

\* the step appends to the request list
RequestsAdded ==
    /\ Len(cargo_requests') > Len(cargo_requests)
    /\ SubSeq(cargo_requests', 1, Len(cargo_requests)) = cargo_requests

\* C27: an add-request with an item type outside the presets answers 400 and
\* leaves list and counter as they were; a successful add-request of
\* quantity q >= 1 appends exactly q items with the next q identifiers, the
\* preset's weight and dimensions and the requested priority.
C27_AddRequest ==
    /\ [](pc = "idle" =>
            \A p \in Priorities : \A q \in 0..(MaxRequests - Len(cargo_requests)) :
                /\ ENABLED (AddRequest("Unknown", q, p) /\ response'.status = 400)
                /\ ~ ENABLED (AddRequest("Unknown", q, p) /\ response'.status # 400))
    /\ [][response'.status = 400 => UNCHANGED <<cargo_requests, request_counter>>]_vars
    /\ [][Len(cargo_requests') > Len(cargo_requests) =>
            LET n == Len(cargo_requests)
                q == response'.body[2]
                t == response'.body[3]
            IN  /\ RequestsAdded
                /\ response'.status = 200
                /\ q >= 1
                /\ Len(cargo_requests') = n + q
                /\ request_counter' = request_counter + q
                /\ t \in DOMAIN ITEM_PRESETS
                /\ \E p \in Priorities :
                     \A i \in 1..q :
                        cargo_requests'[n + i] =
                            [id |-> request_counter + i, item_type |-> t,
                             priority |-> p, weight |-> ITEM_PRESETS[t].weight,
                             length |-> ITEM_PRESETS[t].length,
                             width |-> ITEM_PRESETS[t].width,
                             height |-> ITEM_PRESETS[t].height]]_vars

\* an add-request was refused while the list held requests of two add-requests
C27_Witness ==
    /\ response.status = 400
    /\ Len(cargo_requests) = 3
    /\ cargo_requests[1].priority # cargo_requests[3].priority
    /\ cargo_requests[2].priority = cargo_requests[3].priority

----------------------------------------------------------------------------
(* Properties of the threaded server, checked under ConcurrentSpec *)

\* C28: with add-request handlers interleaving, the items in the request
\* list have pairwise distinct identifiers.
C28_DistinctIdentifiers ==
    \A i, j \in 1..Len(cargo_requests) :
        i # j => cargo_requests[i].id # cargo_requests[j].id

\* an optimize_cargo call takes its snapshot in this step
OptimizeStarts == pc = "idle" /\ pc' = "loop"

\* C29: the snapshot an optimize_cargo call plans over holds all or none of
\* the items of an add-request that is being served, and it does not change
\* while the plan is computed.
C29_SnapshotOfWholeRequests ==
    /\ [][OptimizeStarts =>
            \A h \in Handlers :
                threads[h].left > 0 =>
                    threads[h].inlist \in {0, threads[h].quantity}]_vars
    /\ [][(pc = "loop" /\ pc' = "loop") => sorted_requests' = sorted_requests]_vars

====
